---- MODULE Spec2Model ----
(***************************************************************************)
(* Model of api/libs/oauth_data_source.py: the Notion OAuth data source.   *)
(*                                                                         *)
(* NotionOAuth.get_access_token and NotionOAuth.sync_data_source are       *)
(* modelled as request handlers run by web workers. A handler takes three  *)
(* steps (the token exchange or the query for the binding, the searches    *)
(* of get_authorized_pages, the commit), so that requests of different     *)
(* workers interleave between their storage accesses. What                 *)
(* get_authorized_pages makes of the two search results is a pure          *)
(* function and is modelled as an operator.                                *)
(***************************************************************************)
EXTENDS Integers, Sequences, FiniteSets, TLC

VARIABLES
    store,              \* the data_source_bindings table: a sequence of rows, row i has id i
    pc,                 \* per worker: position in the handler it runs
    tenant,             \* per worker: current_user.current_tenant_id
    response_json,      \* per worker: parsed body of the token endpoint's response
    binding,            \* per worker: data_source_binding, the row object loaded by .first()
    pages,              \* per worker: the list get_authorized_pages returned
    op,                 \* per worker: the entry point it runs
    binding_id,         \* per worker: the binding_id sync_data_source was called with
    searches,           \* per worker: the answers to the search requests its call issued
    outcome,            \* per worker: how the call ended (returned, or the exception raised)
    norm_in,            \* the two search results given to get_authorized_pages on its own
    norm_out            \* what get_authorized_pages made of norm_in

vars == <<store, pc, op, tenant, response_json, binding_id, binding, pages,
          searches, outcome, norm_in, norm_out>>

handler_vars == <<store, pc, op, tenant, response_json, binding_id, binding,
                  pages, searches, outcome>>

norm_vars == <<norm_in, norm_out>>

(***************************************************************************)
(* JSON values. Python's None and strings met in nullable positions are    *)
(* records, so that any two values can be compared.                        *)
(***************************************************************************)
None == [null |-> TRUE]

Str(s) == [str |-> s]

\* dict.get(key): the value, or None when the key is absent
Get(d, key) == IF key \in DOMAIN d THEN d[key] ELSE None

\* Python truthiness of a value that is None, a string or a dict
Truthy(v) == v # None /\ v # Str("") /\ DOMAIN v # {}

(***************************************************************************)
(* get_authorized_pages: the normalization of the search results           *)
(***************************************************************************)

\* the cascade of the specification: 'title' is consulted whenever 'Name'
\* gives no name
PageNameCascade(page_result) ==
    LET properties == page_result.properties IN
    IF "Name" \in DOMAIN properties /\ Len(properties["Name"].title) > 0
    THEN properties["Name"].title[1].plain_text
    ELSE IF "title" \in DOMAIN properties /\ Len(properties["title"].title) > 0
         THEN properties["title"].title[1].plain_text
         ELSE "Untitled"

PageName(page_result) ==
    LET properties == page_result.properties IN
    IF "Name" \in DOMAIN properties
    THEN IF Len(properties["Name"].title) > 0
         THEN properties["Name"].title[1].plain_text
         ELSE "Untitled"
    ELSE IF "title" \in DOMAIN properties
         THEN IF Len(properties["title"].title) > 0
              THEN properties["title"].title[1].plain_text
              ELSE "Untitled"
         ELSE "Untitled"

PageIcon(page_result) ==
    LET page_icon == page_result.icon IN
    IF Truthy(page_icon) THEN page_icon[page_icon.type] ELSE None

ParentId(parent) ==
    IF parent.type = "workspace" THEN "root" ELSE parent[parent.type]

PageDescriptor(page_result) ==
    [page_id   |-> page_result.id,
     page_name |-> PageName(page_result),
     page_icon |-> PageIcon(page_result),
     parent_id |-> ParentId(page_result.parent),
     type      |-> "page"]

DatabaseName(database_result) ==
    IF Len(database_result.title) > 0
    THEN database_result.title[1].plain_text
    ELSE "Untitled"

DatabaseDescriptor(database_result) ==
    [page_id   |-> database_result.id,
     page_name |-> DatabaseName(database_result),
     page_icon |-> database_result.icon,
     parent_id |-> ParentId(database_result.parent),
     type      |-> "database"]

\* the inner loop: one descriptor per database result, in order
DatabaseDescriptors(database_results_) ==
    [j \in 1..Len(database_results_) |-> DatabaseDescriptor(database_results_[j])]

\* a key lookup of the page loop's body fails on this record
PageKeyError(r) ==
    \/ {"id", "properties", "icon", "parent"} \ DOMAIN r # {}
    \/ LET used == IF "Name" \in DOMAIN r.properties
                   THEN {"Name"}
                   ELSE {"title"} \cap DOMAIN r.properties
       IN \E k \in used :
             \/ "title" \notin DOMAIN r.properties[k]
             \/ /\ Len(r.properties[k].title) > 0
                /\ "plain_text" \notin DOMAIN r.properties[k].title[1]
    \/ /\ Truthy(r.icon)
       /\ ("type" \notin DOMAIN r.icon \/ r.icon.type \notin DOMAIN r.icon)
    \/ "type" \notin DOMAIN r.parent
    \/ r.parent.type # "workspace" /\ r.parent.type \notin DOMAIN r.parent

\* a key lookup of the database loop's body fails on this record
DatabaseKeyError(r) ==
    \/ {"id", "title", "icon", "parent"} \ DOMAIN r # {}
    \/ Len(r.title) > 0 /\ "plain_text" \notin DOMAIN r.title[1]
    \/ "type" \notin DOMAIN r.parent
    \/ r.parent.type # "workspace" /\ r.parent.type \notin DOMAIN r.parent

\* get_authorized_pages raises KeyError: the database loop runs only inside
\* the page loop, so a malformed database record is met only when there is a page
NormalizeRaises(page_results_, database_results_) ==
    \/ \E i \in 1..Len(page_results_) : PageKeyError(page_results_[i])
    \/ /\ Len(page_results_) > 0
       /\ \E j \in 1..Len(database_results_) : DatabaseKeyError(database_results_[j])

RECURSIVE PagesLoop(_, _, _, _)
\* the page loop from its i-th iteration on, pages_ being the list built so far
PagesLoop(page_results_, database_results_, i, pages_) ==
    IF i > Len(page_results_)
    THEN pages_
    ELSE PagesLoop(page_results_, database_results_, i + 1,
                   Append(pages_, PageDescriptor(page_results_[i]))
                       \o DatabaseDescriptors(database_results_))

\* the pages first, then every database once
FlattenOnce(page_results_, database_results_) ==
    [i \in 1..Len(page_results_) |-> PageDescriptor(page_results_[i])]
        \o DatabaseDescriptors(database_results_)

GetAuthorizedPages(page_results_, database_results_) ==
    PagesLoop(page_results_, database_results_, 1, <<>>)

(***************************************************************************)
(* The provider's answers                                                  *)
(***************************************************************************)
Procs == {"w1", "w2"}

Tenants == {"t1", "t2"}

\* the most rows the table holds in the model
MaxRows == 2

\* bodies the token endpoint answers with: no access_token key, a null one,
\* an empty one, and two grants of the same token
TokenResponses ==
    {[error |-> Str("invalid_grant")],
     [access_token |-> None, workspace_name |-> Str("Acme")],
     [access_token |-> Str(""), workspace_name |-> Str("Acme")],
     [access_token |-> Str("tok"), workspace_name |-> Str("Acme"),
      workspace_icon |-> None, workspace_id |-> Str("w1")],
     [access_token |-> Str("tok"), workspace_name |-> Str("Beta"),
      workspace_icon |-> Str("b.png")]}

RootPage ==
    [id |-> "p1", properties |-> [k \in {} |-> None], icon |-> None,
     parent |-> [type |-> "workspace"]]

\* a database record without its 'parent' key
BadDatabase ==
    [id |-> "d9", title |-> <<>>, icon |-> None]

NamedDatabase ==
    [id |-> "d1", title |-> <<[plain_text |-> "Tasks"]>>, icon |-> None,
     parent |-> [type |-> "page_id", page_id |-> "p1"]]

\* a body that is no JSON document
NotJson == [not_json |-> TRUE]

\* the error body of the search endpoint: it has no 'results'
ErrorBody == [object |-> Str("error"), code |-> Str("unauthorized")]

PageSearchResponses ==
    {ErrorBody, [results |-> <<>>], [results |-> <<RootPage>>]}

DatabaseSearchResponses ==
    {NotJson, [results |-> <<NamedDatabase>>], [results |-> <<BadDatabase>>]}

(***************************************************************************)
(* notion_page_search, notion_database_search                              *)
(***************************************************************************)
Returned == [raised |-> "nothing"]

Raised(exception) == [raised |-> exception]

\* a search that answers an empty list where the body has no results
NotionSearchLenient(response) ==
    IF response = NotJson \/ "results" \notin DOMAIN response
    THEN [raised |-> "nothing", results |-> <<>>]
    ELSE [raised |-> "nothing", results |-> response.results]

\* response.json() and response_json['results'] of one search request
NotionSearch(response) ==
    IF response = NotJson
    THEN Raised("JSONDecodeError")
    ELSE IF "results" \notin DOMAIN response
         THEN Raised("KeyError")
         ELSE [raised |-> "nothing", results |-> response.results]

(***************************************************************************)
(* The binding rows                                                        *)
(***************************************************************************)
\* what .first() gives when no row matches
NoBinding == [id |-> 0]

\* the source_info get_access_token builds
NewSourceInfo(response, pages_) ==
    [workspace_name |-> Get(response, "workspace_name"),
     workspace_icon |-> Get(response, "workspace_icon"),
     workspace_id   |-> Get(response, "workspace_id"),
     pages          |-> pages_,
     total          |-> Len(pages_)]

\* a resync that rebuilds the source_info and loses the workspace
ResyncRebuilt(source_info, pages_) ==
    [workspace_name |-> None, workspace_icon |-> None, workspace_id |-> None,
     pages |-> pages_, total |-> Len(pages_)]

\* a resync that replaces the pages and leaves the total as it was
ResyncKeepTotal(source_info, pages_) ==
    [source_info EXCEPT !.pages = pages_]

\* the source_info sync_data_source writes back
ResyncSourceInfo(source_info, pages_) ==
    [source_info EXCEPT !.pages = pages_, !.total = Len(pages_)]

\* an update that leaves the disabled flag as it is
UpdatedKeepDisabled(row, source_info) ==
    [row EXCEPT !.source_info = source_info]

\* the row after the UPDATE of the commit: source_info and disabled are set
UpdatedBinding(row, source_info) ==
    [row EXCEPT !.source_info = source_info, !.disabled = FALSE]

\* the default of the column 'disabled' of DataSourceBinding (models.source)
DefaultDisabled == FALSE

\* the row DataSourceBinding(...) makes; disabled takes the column's default
NewBinding(id, tenant_id, access_token, source_info) ==
    [id |-> id, tenant_id |-> tenant_id, provider |-> "notion",
     access_token |-> access_token, source_info |-> source_info,
     disabled |-> DefaultDisabled]

\* the filter of get_access_token's query
TokenFilter(row, tenant_id, access_token) ==
    /\ row.tenant_id = tenant_id
    /\ row.provider = "notion"
    /\ row.access_token = access_token

\* a filter that finds disabled rows too
SyncFilterAnyState(row, tenant_id, id) ==
    /\ row.tenant_id = tenant_id
    /\ row.provider = "notion"
    /\ row.id = id

\* the filter of sync_data_source's query
SyncFilter(row, tenant_id, id) ==
    /\ row.tenant_id = tenant_id
    /\ row.provider = "notion"
    /\ row.id = id
    /\ row.disabled = FALSE

Rows(store_) == {store_[i] : i \in 1..Len(store_)}

\* what get_access_token keeps of the row it found: it reads none of its
\* columns, and its UPDATE names the row by its primary key
Identity(row) == [id |-> row.id]

\* .first(): one of the matching rows, None when there is none
First(matching) == IF matching = {} THEN {NoBinding} ELSE matching

\* a test that takes only a missing or null token for no token
TokenIsNone(access_token) == access_token = None

\* 'if not access_token'
TokenMissing(access_token) == ~Truthy(access_token)

(***************************************************************************)
(* The handlers                                                            *)
(***************************************************************************)
NoResponse == [none |-> TRUE]

Pending == [raised |-> "pending"]

HandlerInit ==
    /\ store = <<>>
    /\ pc = [p \in Procs |-> "idle"]
    /\ op = [p \in Procs |-> "none"]
    /\ tenant = [p \in Procs |-> "none"]
    /\ response_json = [p \in Procs |-> NoResponse]
    /\ binding_id = [p \in Procs |-> 0]
    /\ binding = [p \in Procs |-> NoBinding]
    /\ pages = [p \in Procs |-> <<>>]
    /\ searches = [p \in Procs |-> <<>>]
    /\ outcome = [p \in Procs |-> Pending]

NotNormalized == [state |-> "input"]

Init ==
    /\ HandlerInit
    /\ norm_in = [page_results |-> <<>>, database_results |-> <<>>]
    /\ norm_out = NotNormalized

\* the call of p ends here, returning or raising: its locals are gone; the
\* request (its tenant, its argument) stays the worker's until it takes the next
End(p, how) ==
    /\ pc' = [pc EXCEPT ![p] = "done"]
    /\ outcome' = [outcome EXCEPT ![p] = how]
    /\ response_json' = [response_json EXCEPT ![p] = NoResponse]
    /\ binding' = [binding EXCEPT ![p] = NoBinding]
    /\ pages' = [pages EXCEPT ![p] = <<>>]

\* get_access_token up to the check of the token endpoint's answer
ExchangeToken(p) ==
    /\ pc[p] = "idle"
    /\ \E t \in Tenants, response \in TokenResponses :
          /\ op' = [op EXCEPT ![p] = "get_access_token"]
          /\ tenant' = [tenant EXCEPT ![p] = t]
          /\ IF TokenMissing(Get(response, "access_token"))
             THEN End(p, [raised |-> "ValueError",
                          message |-> "Error in Notion OAuth",
                          detail |-> response])
             ELSE /\ pc' = [pc EXCEPT ![p] = "search"]
                  /\ response_json' = [response_json EXCEPT ![p] = response]
                  /\ UNCHANGED <<outcome, binding, pages>>
    /\ UNCHANGED <<store, binding_id, searches, norm_vars>>

\* sync_data_source up to the check of the row its query found
SyncLookup(p) ==
    /\ pc[p] = "idle"
    /\ \E t \in Tenants, id \in 1..(Len(store) + 1) :
          /\ op' = [op EXCEPT ![p] = "sync_data_source"]
          /\ tenant' = [tenant EXCEPT ![p] = t]
          /\ binding_id' = [binding_id EXCEPT ![p] = id]
          /\ \E row \in First({r \in Rows(store) : SyncFilter(r, t, id)}) :
                IF row # NoBinding
                THEN /\ pc' = [pc EXCEPT ![p] = "search"]
                     /\ binding' = [binding EXCEPT ![p] = row]
                     /\ UNCHANGED <<outcome, response_json, pages>>
                ELSE End(p, [raised |-> "ValueError",
                             message |-> "Data source binding not found"])
    /\ UNCHANGED <<store, searches, norm_vars>>

\* get_authorized_pages raises: the call ends with the answers it got so far
SearchEnd(p, answers, how) ==
    /\ searches' = [searches EXCEPT ![p] = answers]
    /\ End(p, how)

\* get_authorized_pages: the two search requests, one after the other, and the
\* two loops over their results; in get_access_token the query for the binding
\* follows at once
AuthorizedPages(p) ==
    /\ pc[p] = "search"
    /\ \E page_response \in PageSearchResponses :
          LET page_got == NotionSearch(page_response) IN
          IF page_got.raised # "nothing"
          THEN SearchEnd(p, <<page_response>>, page_got)
          ELSE \E database_response \in DatabaseSearchResponses :
                  LET database_got == NotionSearch(database_response)
                      answers == <<page_response, database_response>>
                  IN IF database_got.raised # "nothing"
                     THEN SearchEnd(p, answers, database_got)
                     ELSE IF NormalizeRaises(page_got.results, database_got.results)
                          THEN SearchEnd(p, answers, Raised("KeyError"))
                          ELSE /\ searches' = [searches EXCEPT ![p] = answers]
                               /\ pages' = [pages EXCEPT ![p] =
                                              GetAuthorizedPages(page_got.results,
                                                                 database_got.results)]
                               /\ pc' = [pc EXCEPT ![p] = "commit"]
                               /\ IF op[p] = "get_access_token"
                                  THEN \E row \in First({r \in Rows(store) :
                                              TokenFilter(r, tenant[p],
                                                   response_json[p].access_token)}) :
                                          binding' = [binding EXCEPT ![p] = Identity(row)]
                                  ELSE UNCHANGED binding
                               /\ UNCHANGED <<outcome, response_json>>
    /\ UNCHANGED <<store, op, tenant, binding_id, norm_vars>>

\* get_access_token: the update or the insert, and the commit
AuthCommit(p) ==
    /\ pc[p] = "commit"
    /\ op[p] = "get_access_token"
    /\ LET source_info == NewSourceInfo(response_json[p], pages[p]) IN
       IF binding[p] # NoBinding
       THEN store' = [store EXCEPT ![binding[p].id] =
                         UpdatedBinding(@, source_info)]
       ELSE /\ Len(store) < MaxRows
            /\ store' = Append(store,
                               NewBinding(Len(store) + 1, tenant[p],
                                          response_json[p].access_token, source_info))
    /\ End(p, Returned)
    /\ UNCHANGED <<op, tenant, binding_id, searches, norm_vars>>

\* sync_data_source: the update and the commit
SyncCommit(p) ==
    /\ pc[p] = "commit"
    /\ op[p] = "sync_data_source"
    /\ store' = [store EXCEPT ![binding[p].id] =
                    UpdatedBinding(@, ResyncSourceInfo(binding[p].source_info,
                                                       pages[p]))]
    /\ End(p, Returned)
    /\ UNCHANGED <<op, tenant, binding_id, searches, norm_vars>>

\* the worker takes the next request
Return(p) ==
    /\ pc[p] = "done"
    /\ pc' = [pc EXCEPT ![p] = "idle"]
    /\ op' = [op EXCEPT ![p] = "none"]
    /\ searches' = [searches EXCEPT ![p] = <<>>]
    /\ outcome' = [outcome EXCEPT ![p] = Pending]
    /\ tenant' = [tenant EXCEPT ![p] = "none"]
    /\ binding_id' = [binding_id EXCEPT ![p] = 0]
    /\ UNCHANGED <<store, response_json, binding, pages, norm_vars>>

\* another part of the application disables a binding
Disable ==
    /\ \E i \in 1..Len(store) :
          /\ ~store[i].disabled
          /\ store' = [store EXCEPT ![i].disabled = TRUE]
    /\ UNCHANGED <<pc, op, tenant, response_json, binding_id, binding, pages,
                   searches, outcome, norm_vars>>

Step(p) ==
    \/ ExchangeToken(p)
    \/ SyncLookup(p)
    \/ AuthorizedPages(p)
    \/ AuthCommit(p)
    \/ SyncCommit(p)
    \/ Return(p)

\* requests of different workers interleave
Next ==
    \/ \E p \in Procs : Step(p)
    \/ Disable

Spec == Init /\ [][Next]_vars

\* one request at a time: a call starts when the call before it has ended
OthersIdle(p) == \A q \in Procs \ {p} : pc[q] = "idle"

SeqNext ==
    \/ \E p \in Procs : OthersIdle(p) /\ Step(p)
    \/ (\A q \in Procs : pc[q] = "idle") /\ Disable

SeqSpec == Init /\ [][SeqNext]_vars

\* authorizations one at a time, resyncs at once
Syncing(q) == pc[q] = "idle" \/ op[q] = "sync_data_source"

RaceStep(p) ==
    \/ OthersIdle(p) /\ (ExchangeToken(p) \/ AuthCommit(p))
    \/ (\A q \in Procs \ {p} : Syncing(q)) /\ (SyncLookup(p) \/ SyncCommit(p))
    \/ AuthorizedPages(p)
    \/ Return(p)

SyncRaceNext ==
    \/ \E p \in Procs : RaceStep(p)
    \/ Disable

SyncRaceSpec == Init /\ [][SyncRaceNext]_vars

(***************************************************************************)
(* get_authorized_pages on its own, over every pair of search results of   *)
(* at most MaxLen records                                                  *)
(***************************************************************************)
MaxLen == 2

TitleStates == {"absent", "empty", "text"}

\* the 'properties' of a page record: 'Name' and 'title' each absent, with an
\* empty title array, or with a text
Properties(name, title) ==
    [k \in {x \in {"Name", "title"} :
               (x = "Name" /\ name # "absent") \/ (x = "title" /\ title # "absent")} |->
        [title |-> IF (IF k = "Name" THEN name ELSE title) = "empty"
                   THEN <<>>
                   ELSE <<[plain_text |-> IF k = "Name" THEN "Roadmap" ELSE "Notes"]>>]]

PageRecords ==
    {[id |-> "p1", properties |-> Properties(n, t), icon |-> None,
      parent |-> [type |-> "workspace"]] : n \in TitleStates, t \in TitleStates}
    \cup
    {[id |-> "p2", properties |-> Properties("absent", "text"),
      icon |-> [type |-> "emoji", emoji |-> Str("smile")],
      parent |-> [type |-> "page_id", page_id |-> "abc123"]],
     [id |-> "p3", properties |-> Properties("text", "absent"),
      icon |-> [type |-> "external", external |-> [url |-> Str("https://x/i.png")]],
      parent |-> [type |-> "database_id", database_id |-> "d1"]],
     [id |-> "p4", properties |-> Properties("absent", "absent"),
      parent |-> [type |-> "workspace"]]}

DatabaseRecords ==
    {NamedDatabase,
     [id |-> "d2", title |-> <<>>,
      icon |-> [type |-> "emoji", emoji |-> Str("book")],
      parent |-> [type |-> "workspace"]],
     BadDatabase}

BoundedSeq(S, n) == UNION {[1..k -> S] : k \in 0..n}

\* a grant and a stored source_info to build the two source_infos from
SampleGrant ==
    [access_token |-> Str("tok"), workspace_name |-> Str("Acme"),
     workspace_id |-> Str("w1")]

SampleSourceInfo ==
    [workspace_name |-> Str("Acme"), workspace_icon |-> None,
     workspace_id |-> Str("w1"), pages |-> <<>>, total |-> 0]

NormInit ==
    /\ HandlerInit
    /\ norm_in \in [page_results : BoundedSeq(PageRecords, MaxLen),
                    database_results : BoundedSeq(DatabaseRecords, MaxLen)]
    /\ norm_out = NotNormalized

\* one call of get_authorized_pages, and the source_info each entry point
\* builds from the list it returns
Normalize ==
    /\ norm_out = NotNormalized
    /\ norm_out' =
          IF NormalizeRaises(norm_in.page_results, norm_in.database_results)
          THEN [state |-> "raised", raised |-> "KeyError"]
          ELSE LET got == GetAuthorizedPages(norm_in.page_results,
                                             norm_in.database_results)
               IN [state |-> "returned",
                   pages |-> got,
                   created |-> NewSourceInfo(SampleGrant, got),
                   resynced |-> ResyncSourceInfo(SampleSourceInfo, got)]
    /\ UNCHANGED <<norm_in, handler_vars>>

NormNext == Normalize

NormSpec == NormInit /\ [][NormNext]_vars

(***************************************************************************)
(* Properties of get_authorized_pages (checked under NormSpec)             *)
(***************************************************************************)
IsPage(d) == d.type = "page"

NumPages == Len(norm_in.page_results)

NumDatabases == Len(norm_in.database_results)

HasText(properties, key) ==
    key \in DOMAIN properties /\ Len(properties[key].title) > 0

\* the name the specification's cascade gives a page record
CascadeName(r) ==
    IF HasText(r.properties, "Name")
    THEN r.properties["Name"].title[1].plain_text
    ELSE IF HasText(r.properties, "title")
         THEN r.properties["title"].title[1].plain_text
         ELSE "Untitled"

\* the name when 'title' is consulted only in the absence of 'Name'
NameFirstName(r) ==
    IF "Name" \in DOMAIN r.properties
    THEN IF HasText(r.properties, "Name")
         THEN r.properties["Name"].title[1].plain_text
         ELSE "Untitled"
    ELSE IF HasText(r.properties, "title")
         THEN r.properties["title"].title[1].plain_text
         ELSE "Untitled"

\* the descriptors of the page records, in the order of the page search
PageDescriptorsOut == SelectSeq(norm_out.pages, IsPage)

\* C6, as claimed: the page_name of every page record follows the cascade
\* 'Name' with a text, else 'title' with a text, else 'Untitled'
C6_NameCascade ==
    norm_out.state = "returned" =>
        /\ Len(PageDescriptorsOut) = NumPages
        /\ \A i \in 1..NumPages :
              PageDescriptorsOut[i].page_name = CascadeName(norm_in.page_results[i])

\* C6, amended: a record with a 'Name' property is named by it alone (its first
\* text, 'Untitled' when its title array is empty); 'title' names the record
\* only when 'Name' is absent; 'Untitled' otherwise
C6_NameFirst ==
    norm_out.state = "returned" =>
        /\ Len(PageDescriptorsOut) = NumPages
        /\ \A i \in 1..NumPages :
              PageDescriptorsOut[i].page_name = NameFirstName(norm_in.page_results[i])

\* a page with an empty 'Name' and a text in 'title' has been named 'Untitled'
C6_Witness ==
    /\ norm_out.state = "returned"
    /\ \E i \in 1..NumPages :
          /\ "Name" \in DOMAIN norm_in.page_results[i].properties
          /\ ~HasText(norm_in.page_results[i].properties, "Name")
          /\ HasText(norm_in.page_results[i].properties, "title")
          /\ PageDescriptorsOut[i].page_name = "Untitled"
    /\ \E i \in 1..NumPages : PageDescriptorsOut[i].page_name = "Notes"

\* C7: every record of either search has a descriptor of its kind in the
\* list, and the total counts the list
C7_EveryRecordRepresented ==
    norm_out.state = "returned" =>
        /\ \A i \in 1..NumPages :
              \E k \in 1..Len(norm_out.pages) :
                 /\ norm_out.pages[k].type = "page"
                 /\ norm_out.pages[k].page_id = norm_in.page_results[i].id
        /\ \A j \in 1..NumDatabases :
              \E k \in 1..Len(norm_out.pages) :
                 /\ norm_out.pages[k].type = "database"
                 /\ norm_out.pages[k].page_id = norm_in.database_results[j].id
        /\ norm_out.created.total = Len(norm_out.pages)

\* the list the claim describes: for each page in order, its descriptor and
\* then the descriptor of every database in order
PerPageSequence ==
    [k \in 1..(NumPages * (1 + NumDatabases)) |->
        LET i == ((k - 1) \div (1 + NumDatabases)) + 1
            j == (k - 1) % (1 + NumDatabases)
        IN IF j = 0
           THEN PageDescriptor(norm_in.page_results[i])
           ELSE DatabaseDescriptor(norm_in.database_results[j])]

\* C8: the list is, page by page, the page's descriptor followed by the
\* descriptors of all databases; its length P*(1+D) is the total both entry
\* points store
C8_DatabasesPerPage ==
    norm_out.state = "returned" =>
        /\ norm_out.pages = PerPageSequence
        /\ Len(norm_out.pages) = NumPages * (1 + NumDatabases)
        /\ norm_out.created.pages = norm_out.pages
        /\ norm_out.created.total = NumPages * (1 + NumDatabases)
        /\ norm_out.resynced.pages = norm_out.pages
        /\ norm_out.resynced.total = NumPages * (1 + NumDatabases)
        /\ (NumPages = 1 /\ NumDatabases = 1 =>
               /\ norm_out.created.total = 2
               /\ norm_out.pages[1].type = "page"
               /\ norm_out.pages[2].type = "database")

\* two pages and two databases have given six descriptors, each database twice
C8_Witness ==
    /\ norm_out.state = "returned"
    /\ NumPages = 2
    /\ NumDatabases = 2
    /\ norm_in.database_results[1] # norm_in.database_results[2]
    /\ Len(norm_out.pages) = 6
    /\ norm_out.pages[2] = norm_out.pages[5]
    /\ norm_out.pages[3] = norm_out.pages[6]
    /\ norm_out.resynced.total = 6

(***************************************************************************)
(* Properties of the two entry points                                      *)
(***************************************************************************)
HasToken(body) ==
    /\ "access_token" \in DOMAIN body
    /\ body.access_token # None
    /\ body.access_token # Str("")

\* the rows of a table with this tenant, provider 'notion' and this token
Matching(store_, tenant_id, access_token) ==
    {i \in 1..Len(store_) :
        /\ store_[i].tenant_id = tenant_id
        /\ store_[i].provider = "notion"
        /\ store_[i].access_token = access_token}

\* an enabled row of this tenant with this id
EnabledBinding(store_, tenant_id, id) ==
    /\ id \in 1..Len(store_)
    /\ store_[id].tenant_id = tenant_id
    /\ store_[id].provider = "notion"
    /\ store_[id].disabled = FALSE

SameWorkspace(a, b) ==
    /\ a.workspace_name = b.workspace_name
    /\ a.workspace_icon = b.workspace_icon
    /\ a.workspace_id = b.workspace_id

\* every row but row id is the same in both tables, and there is no new row
OthersUntouched(before, after, id) ==
    /\ Len(after) = Len(before)
    /\ \A i \in 1..Len(before) : i # id => after[i] = before[i]

\* C1: the commit of a get_access_token call leaves exactly one row for
\* (tenant, 'notion', access_token); the row is enabled and its source_info is
\* the workspace of this response with the pages and total of this call
C1_OneEnabledBinding ==
    [][\A p \in Procs :
          (pc[p] = "commit" /\ op[p] = "get_access_token" /\ pc'[p] = "done") =>
             LET token == response_json[p].access_token
                 found == Matching(store', tenant[p], token)
             IN /\ HasToken(response_json[p])
                /\ outcome'[p] = Returned
                /\ Cardinality(found) = 1
                /\ \A i \in found :
                      /\ store'[i].disabled = FALSE
                      /\ DOMAIN store'[i].source_info =
                            {"workspace_name", "workspace_icon", "workspace_id",
                             "pages", "total"}
                      /\ store'[i].source_info.workspace_name =
                            Get(response_json[p], "workspace_name")
                      /\ store'[i].source_info.workspace_icon =
                            Get(response_json[p], "workspace_icon")
                      /\ store'[i].source_info.workspace_id =
                            Get(response_json[p], "workspace_id")
                      /\ store'[i].source_info.pages = pages[p]
                      /\ store'[i].source_info.total = Len(pages[p])
                      /\ \A j \in 1..Len(store) : j # i => store'[j] = store[j]]_vars

\* a get_access_token call has returned, and the one row of its tenant (not
\* the first row of the table) holds the second grant's workspace, without an
\* icon id, and two descriptors
C1_Witness ==
    \E p \in Procs :
       /\ pc[p] = "done"
       /\ op[p] = "get_access_token"
       /\ outcome[p] = Returned
       /\ Len(searches[p]) = 2
       /\ Len(store) = 2
       /\ store[2].tenant_id = tenant[p]
       /\ store[2].disabled = FALSE
       /\ store[2].source_info.workspace_name = Str("Beta")
       /\ store[2].source_info.workspace_id = None
       /\ store[2].source_info.total = 2
       /\ store[1].disabled

\* C2: a get_access_token call whose token response has no access_token (no
\* key, null, or empty) raises the error with the response body, issues no
\* search and leaves the table as it is; a call goes on only with a token
C2_NoTokenNoWrite ==
    [][\A p \in Procs :
          (pc[p] = "idle" /\ op'[p] = "get_access_token") =>
             \/ /\ pc'[p] = "search"
                /\ HasToken(response_json'[p])
                /\ store' = store
             \/ /\ pc'[p] = "done"
                /\ outcome'[p].raised = "ValueError"
                /\ outcome'[p].message = "Error in Notion OAuth"
                /\ ~HasToken(outcome'[p].detail)
                /\ outcome'[p].detail \in TokenResponses
                /\ searches'[p] = <<>>
                /\ store' = store]_vars

\* a get_access_token call given an empty access_token has raised, with rows
\* in the table and no search issued
C2_Witness ==
    \E p \in Procs :
       /\ pc[p] = "done"
       /\ op[p] = "get_access_token"
       /\ outcome[p].raised = "ValueError"
       /\ outcome[p].message = "Error in Notion OAuth"
       /\ Get(outcome[p].detail, "access_token") = Str("")
       /\ searches[p] = <<>>
       /\ \E i \in 1..Len(store) : store[i].tenant_id = tenant[p]

\* C3: a sync_data_source call for which no enabled row of the tenant has the
\* id raises 'binding not found', issues no search and leaves the table as
\* it is
C3_NotFoundNoWrite ==
    [][\A p \in Procs :
          (/\ pc[p] = "idle"
           /\ op'[p] = "sync_data_source"
           /\ ~EnabledBinding(store, tenant'[p], binding_id'[p])) =>
             /\ pc'[p] = "done"
             /\ outcome'[p] = [raised |-> "ValueError",
                               message |-> "Data source binding not found"]
             /\ searches'[p] = <<>>
             /\ store' = store]_vars

\* a resync of the tenant's own disabled row has raised 'binding not found',
\* while the other row of the table is another tenant's
C3_Witness ==
    \E p \in Procs :
       /\ pc[p] = "done"
       /\ op[p] = "sync_data_source"
       /\ outcome[p].raised = "ValueError"
       /\ Len(store) = 2
       /\ binding_id[p] \in 1..2
       /\ store[binding_id[p]].tenant_id = tenant[p]
       /\ store[binding_id[p]].disabled
       /\ store[3 - binding_id[p]].tenant_id # tenant[p]
       /\ searches[p] = <<>>

\* C4: the commit of a sync_data_source call replaces pages and total in the
\* source_info of its row and changes nothing else: not the workspace, not
\* another column, not another row; it adds no row
C4_ResyncFrame ==
    [][\A p \in Procs :
          (pc[p] = "commit" /\ op[p] = "sync_data_source" /\ pc'[p] = "done") =>
             LET id == binding_id[p] IN
             /\ EnabledBinding(store, tenant[p], id)
             /\ outcome'[p] = Returned
             /\ OthersUntouched(store, store', id)
             /\ store'[id].id = store[id].id
             /\ store'[id].tenant_id = store[id].tenant_id
             /\ store'[id].provider = store[id].provider
             /\ store'[id].access_token = store[id].access_token
             /\ store'[id].disabled = FALSE
             /\ DOMAIN store'[id].source_info = DOMAIN store[id].source_info
             /\ SameWorkspace(store'[id].source_info, store[id].source_info)
             /\ store'[id].source_info.pages = pages[p]
             /\ store'[id].source_info.total = Len(pages[p])]_vars

\* a resync that found no page has returned: its row has no pages, total 0,
\* and still the workspace of the grant
C4_Witness ==
    \E p \in Procs :
       /\ pc[p] = "done"
       /\ op[p] = "sync_data_source"
       /\ outcome[p] = Returned
       /\ searches[p][1] = [results |-> <<>>]
       /\ store[binding_id[p]].source_info.pages = <<>>
       /\ store[binding_id[p]].source_info.total = 0
       /\ store[binding_id[p]].source_info.workspace_name = Str("Beta")
       /\ store[binding_id[p]].source_info.workspace_icon = Str("b.png")
       /\ Len(store) = 2

\* C5: no two enabled rows have the same tenant, provider and access_token
C5_OneEnabledPerTriple ==
    \A i, j \in 1..Len(store) :
       (/\ i # j
        /\ store[i].tenant_id = store[j].tenant_id
        /\ store[i].provider = store[j].provider
        /\ store[i].access_token = store[j].access_token)
          => (store[i].disabled \/ store[j].disabled)

HasResults(answer) == "results" \in DOMAIN answer

Malformed(r) == {"id", "icon", "parent"} \ DOMAIN r # {}

\* a search was answered without results, or a record the loops read lacks a key
SearchesFailed(answers) ==
    \/ \E k \in 1..Len(answers) : ~HasResults(answers[k])
    \/ /\ Len(answers) = 2
       /\ answers[1].results # <<>>
       /\ \E k \in 1..2 : \E n \in 1..Len(answers[k].results) :
             Malformed(answers[k].results[n])

\* C9: a call whose search or normalization fails ends in an error and writes
\* nothing; the table changes only by the commit that ends a call whose two
\* searches were answered with results (or by a binding being disabled)
C9_WriteIsLast ==
    [][/\ \A p \in Procs :
             (pc[p] = "search" /\ pc'[p] # "search" /\ SearchesFailed(searches'[p])) =>
                /\ pc'[p] = "done"
                /\ outcome'[p].raised \in {"JSONDecodeError", "KeyError"}
                /\ store' = store
       /\ store' # store =>
             \/ pc' = pc
             \/ \E p \in Procs :
                   /\ pc[p] = "commit"
                   /\ pc'[p] = "done"
                   /\ outcome'[p] = Returned
                   /\ Len(searches[p]) = 2
                   /\ ~SearchesFailed(searches[p])
                   /\ (op[p] = "get_access_token" => HasToken(response_json[p]))]_vars

\* a get_access_token call has raised KeyError on a malformed database record,
\* after a token and a page: its tenant has no binding
C9_Witness ==
    \E p \in Procs :
       /\ pc[p] = "done"
       /\ op[p] = "get_access_token"
       /\ outcome[p].raised = "KeyError"
       /\ Len(searches[p]) = 2
       /\ searches[p][2] = [results |-> <<BadDatabase>>]
       /\ store # <<>>
       /\ \A i \in 1..Len(store) : store[i].tenant_id # tenant[p]

InSync(q, id) ==
    /\ op[q] = "sync_data_source"
    /\ binding_id[q] = id
    /\ \/ pc[q] \in {"search", "commit"}
       \/ pc[q] = "done" /\ outcome[q] = Returned

\* C10: of two resyncs of one binding that run at once, each commits without
\* error, and what a commit leaves is the committing call's own pages and
\* total, the workspace as it was, and the row enabled
C10_LastWriteWins ==
    [][\A p \in Procs : \A q \in Procs \ {p} :
          (/\ pc[p] = "commit"
           /\ op[p] = "sync_data_source"
           /\ pc'[p] = "done"
           /\ InSync(q, binding_id[p])) =>
             LET id == binding_id[p] IN
             /\ outcome'[p] = Returned
             /\ OthersUntouched(store, store', id)
             /\ store'[id].source_info.pages = pages[p]
             /\ store'[id].source_info.total = Len(pages[p])
             /\ SameWorkspace(store'[id].source_info, store[id].source_info)
             /\ store'[id].disabled = FALSE]_vars

\* two resyncs of one binding, answered differently, have both returned, and
\* the row holds the two descriptors one of them found
C10_Witness ==
    /\ \A p \in Procs :
          /\ pc[p] = "done"
          /\ op[p] = "sync_data_source"
          /\ outcome[p] = Returned
          /\ binding_id[p] = 1
    /\ searches["w1"] # searches["w2"]
    /\ store[1].source_info.total = 2
    /\ Len(store[1].source_info.pages) = 2
    /\ store[1].disabled = FALSE

====
